---------------------------- MODULE Spec2Model ----------------------------
(***************************************************************************)
(* Model of the k3d Terraform provider's cluster resource                  *)
(* (internal/provider/resource_k3d_cluster.go, lines 1-400: the current    *)
(* flat-schema variant).                                                   *)
(*                                                                         *)
(* The provider is glue around the k3d library.  The model keeps           *)
(*   - the world the library acts on: the nodes of every named cluster,    *)
(*     the default kubeconfig and the standalone kubeconfig files;         *)
(*   - the state the provider commits with resp.State.Set;                 *)
(*   - the response of the last lifecycle call: its diagnostics, in order, *)
(*     and the trace of the external calls it made, with their results.    *)
(* Every lifecycle handler (Create, Read, Update, Delete) is one action:   *)
(* the host engine serialises the calls.  The result of every library call *)
(* is an input of the action, drawn from the results that call can have.   *)
(*                                                                         *)
(* Four smaller parts of the provider have specifications of their own:    *)
(*   - SpecNodes: the nodes data source (datasource_k3d_nodes.go);         *)
(*   - SpecValidators: the port and IP validators (validators.go);         *)
(*   - SpecPlanModifiers: the default plan modifiers (plan_modifiers.go);  *)
(*   - SpecSimpleConfig: the configuration Create synthesizes, in the      *)
(*     three variants of the resource.                                     *)
(***************************************************************************)
EXTENDS Integers, Sequences, FiniteSets, TLC

VARIABLES
    clusters,           \* name -> the cluster the runtime holds under that name
    defaultKubeconfig,  \* names with an entry in the default merged kubeconfig
    kubeconfigFiles,    \* names whose kubeconfig-<name>.yaml exists
    tfstate,            \* name -> the k3dClusterData last committed by State.Set
    resp,               \* the response of the last lifecycle call
    faults,             \* whether external calls can fail in this behaviour
    runtimeNodes,       \* the nodes client.NodeList returns to the data source
    attribute           \* the attribute value a validator or plan modifier is given

vars == <<clusters, defaultKubeconfig, kubeconfigFiles, tfstate, resp, faults,
          runtimeNodes, attribute>>

----------------------------------------------------------------------------
(* Bounds of the model *)

\* servers requested in a plan range over 0..MaxServers
MaxServers == 1
\* agents requested in a plan range over 0..MaxAgents
MaxAgents == 1
\* node lists drawn for the readCluster specification have at most this length
MaxNodeList == 2

\* the names of the resource instances the host engine manages
Names == {"acc-test"}

----------------------------------------------------------------------------
(* Framework values: types.String and types.Int64 are null, unknown or known *)

Known(v) == [null |-> FALSE, unknown |-> FALSE, value |-> v]
StringNull == [null |-> TRUE, unknown |-> FALSE, value |-> ""]
StringUnknown == [null |-> FALSE, unknown |-> TRUE, value |-> ""]
Int64Null == [null |-> TRUE, unknown |-> FALSE, value |-> 0]
Int64Unknown == [null |-> FALSE, unknown |-> TRUE, value |-> 0]

\* types.StringValue / types.Int64Value
StringValue(s) == Known(s)
Int64Value(i) == Known(i)

\* ValueString() / ValueInt64(): the zero value for null and unknown
Value(v) == v.value
IsNull(v) == v.null

----------------------------------------------------------------------------
(* Decimal strings, as sequences of characters *)

Digits == <<"0", "1", "2", "3", "4", "5", "6", "7", "8", "9">>

DigitChar(d) == Digits[d + 1]

IsDigit(c) == \E d \in 0..9 : Digits[d + 1] = c

DigitValue(c) == CHOOSE d \in 0..9 : Digits[d + 1] = c

RECURSIVE FormatUint(_)
FormatUint(i) ==
    IF i < 10 THEN <<DigitChar(i)>>
    ELSE Append(FormatUint(i \div 10), DigitChar(i % 10))

\* strconv.FormatInt(i, 10)
FormatInt(i) == IF i < 0 THEN <<"-">> \o FormatUint(-i) ELSE FormatUint(i)

\* types.Int64.String(): the decimal rendering, or a placeholder
Int64String(v) ==
    IF v.unknown THEN <<"<", "u", "n", "k", "n", "o", "w", "n", ">">>
    ELSE IF v.null THEN <<"<", "n", "u", "l", "l", ">">>
    ELSE FormatInt(v.value)

RECURSIVE ParseDigits(_, _)
\* the value of a sequence of decimal digits, most significant first
ParseDigits(s, acc) ==
    IF s = <<>> THEN acc
    ELSE ParseDigits(Tail(s), acc * 10 + DigitValue(Head(s)))

AllDigits(s) == \A i \in 1..Len(s) : IsDigit(s[i])

\* strconv.ParseInt(s, 10, bitSize): an optional sign, then decimal digits;
\* a syntax error for anything else, a range error outside the signed range
ParseInt(s, bitSize) ==
    LET neg  == s # <<>> /\ Head(s) = "-"
        sign == s # <<>> /\ Head(s) \in {"+", "-"}
        body == IF sign THEN Tail(s) ELSE s
        mag  == ParseDigits(body, 0)
        n    == IF neg THEN -mag ELSE mag
    IN  IF body = <<>> \/ ~AllDigits(body)
          THEN [err |-> "syntax", value |-> 0]
        ELSE IF n < -(2 ^ (bitSize - 1)) \/ n > 2 ^ (bitSize - 1) - 1
          THEN [err |-> "range", value |-> 0]
        ELSE [err |-> "nil", value |-> n]

RECURSIVE Join(_)
\* the Go string a sequence of characters stands for
Join(s) == IF s = <<>> THEN "" ELSE Head(s) \o Join(Tail(s))

----------------------------------------------------------------------------
(* Diagnostics: an ordered sequence of (severity, summary, detail) *)

NewErrorDiagnostic(summary, detail) ==
    [severity |-> "error", summary |-> summary, detail |-> detail]

NewWarningDiagnostic(summary, detail) ==
    [severity |-> "warning", summary |-> summary, detail |-> detail]

\* a HasError that takes a warning for an error
HasAnyDiagnostic(diags) == Len(diags) > 0

\* diag.Diagnostics.HasError
HasError(diags) == \E i \in 1..Len(diags) : diags[i].severity = "error"

----------------------------------------------------------------------------
(* The k3d library and the file system, as the provider sees them *)

\* error values: nil, client.ClusterGetNoNodesFoundError, any other error
ErrNil == "nil"
ClusterGetNoNodesFoundError == "No nodes found for given cluster"
ErrOther == "error"
\* os.Remove of a file that is not there
ErrNotExist == "file does not exist"

ServerRole == "server"
AgentRole == "agent"
LoadBalancerRole == "loadbalancer"
RegistryRole == "registry"

NoKubeAPI == [present |-> FALSE, Host |-> "", HostIP |-> "", HostPort |-> <<>>]

\* no node carries the cluster's label: the cluster does not exist
NoCluster == [nodes |-> <<>>, network |-> "", kubeAPI |-> NoKubeAPI]

Present(cl) == cl.nodes # <<>>

\* the results client.ClusterGet can have for a cluster: it finds the cluster
\* by its nodes, reports ClusterGetNoNodesFoundError when there are none, and
\* fails with another error when the runtime cannot be asked
ClusterGetResults(cl) ==
    (IF Present(cl) THEN {ErrNil} ELSE {ClusterGetNoNodesFoundError})
    \cup (IF faults THEN {ErrOther} ELSE {})

\* a call that succeeds, or fails where calls can fail
CallResults == IF faults THEN {ErrNil, ErrOther} ELSE {ErrNil}

\* one entry of the trace of external calls of a handler
Call(fn, err) == [fn |-> fn, SkipRegistryCheck |-> FALSE, err |-> err]
CallClusterDelete(skip, err) ==
    [fn |-> "ClusterDelete", SkipRegistryCheck |-> skip, err |-> err]

----------------------------------------------------------------------------
(* k3dClusterData *)

\* no attribute is being validated or planned
NoAttribute == [kind |-> "none"]

NullData ==
    [ID |-> StringNull, Name |-> StringNull, Servers |-> Int64Null,
     Agents |-> Int64Null, K8sHost |-> StringNull, K8sHostIP |-> StringNull,
     K8sHostPort |-> Int64Null, Image |-> StringNull, ImageSHA |-> StringNull,
     Network |-> StringNull]

----------------------------------------------------------------------------
(* readCluster *)

\* the filter with its two tests joined by "or": it skips every node
SkipsNodeOr(node) == node.Role # AgentRole \/ node.Role # ServerRole

\* the loop's filter: nodes that are neither agents nor servers are skipped
SkipsNode(node) == node.Role # AgentRole /\ node.Role # ServerRole

\* one iteration of the loop over cluster.Nodes
NodeStep(acc, node) ==
    IF SkipsNode(node) THEN acc
    ELSE [images      |-> acc.images \cup {node.Image},
          agentCount  |-> IF node.Role = AgentRole
                            THEN acc.agentCount + 1 ELSE acc.agentCount,
          serverCount |-> IF node.Role = AgentRole THEN acc.serverCount
                          ELSE IF node.Role = ServerRole
                            THEN acc.serverCount + 1 ELSE acc.serverCount]

RECURSIVE NodeLoop(_, _)
NodeLoop(nodes, acc) ==
    IF nodes = <<>> THEN acc
    ELSE NodeLoop(Tail(nodes), NodeStep(acc, Head(nodes)))

\* agentCount, serverCount and images after the loop
CountNodes(nodes) ==
    NodeLoop(nodes, [images |-> {}, agentCount |-> 0, serverCount |-> 0])

\* the orders in which a range over the images map can yield its keys
ImageOrders(images) ==
    {o \in [1..Cardinality(images) -> images] :
        \A i, j \in 1..Cardinality(images) : o[i] = o[j] => i = j}

RECURSIVE JoinImages(_, _)
\* the buffer built from the images, ", " between two of them
JoinImages(order, prefix) ==
    IF order = <<>> THEN ""
    ELSE prefix \o Head(order) \o JoinImages(Tail(order), ", ")

\* the image part of readCluster: a warning for several images, else ImageSHA
ReadImages(data, images, order) ==
    IF Cardinality(images) > 1
      THEN [diags |-> <<NewWarningDiagnostic("Multiple node images found",
                                             JoinImages(order, ""))>>,
            data  |-> data]
      ELSE [diags |-> <<>>,
            data  |-> IF images = {} THEN data
                      ELSE [data EXCEPT !.ImageSHA = StringValue(order[1])]]

\* the bit size readCluster hands to strconv.ParseInt
PortBitSize == 16

\* the KubeAPI part of readCluster
ReadKubeAPI(data, kubeAPI) ==
    IF ~kubeAPI.present THEN [diags |-> <<>>, data |-> data]
    ELSE LET d    == [data EXCEPT !.K8sHost = StringValue(kubeAPI.Host),
                                  !.K8sHostIP = StringValue(kubeAPI.HostIP)]
             port == ParseInt(kubeAPI.HostPort, PortBitSize)
         IN  IF port.err # ErrNil
               THEN [diags |-> <<NewWarningDiagnostic(
                                   "Invalid port found in cluster settings",
                                   Join(kubeAPI.HostPort))>>,
                     data  |-> d]
               ELSE [diags |-> <<>>,
                     data  |-> [d EXCEPT !.K8sHostPort = Int64Value(port.value)]]

\* readCluster without the assignment data.ID = data.Name
readClusterKeepsID(data, err, cluster, order) ==
    IF err # ErrNil
      THEN [diags  |-> <<NewErrorDiagnostic("Error reading k3d cluster", err)>>,
            data   |-> data,
            images |-> {}]
    ELSE LET c   == CountNodes(cluster.nodes)
             img == ReadImages(data, c.images, order)
             d   == [img.data EXCEPT !.Agents = Int64Value(c.agentCount),
                                     !.Servers = Int64Value(c.serverCount),
                                     !.Network = StringValue(cluster.network)]
             api == ReadKubeAPI(d, cluster.kubeAPI)
         IN  [diags  |-> img.diags \o api.diags,
              data   |-> api.data,
              images |-> c.images]

\* readCluster(ctx, &data), given the result of its ClusterGet: the cluster
\* found, or the error; order is the iteration order of the images map
readCluster(data, err, cluster, order) ==
    IF err # ErrNil
      THEN [diags  |-> <<NewErrorDiagnostic("Error reading k3d cluster", err)>>,
            data   |-> data,
            images |-> {}]
    ELSE LET c   == CountNodes(cluster.nodes)
             img == ReadImages(data, c.images, order)
             d   == [img.data EXCEPT !.Agents = Int64Value(c.agentCount),
                                     !.Servers = Int64Value(c.serverCount),
                                     !.Network = StringValue(cluster.network),
                                     !.ID = data.Name]
             api == ReadKubeAPI(d, cluster.kubeAPI)
         IN  [diags  |-> img.diags \o api.diags,
              data   |-> api.data,
              images |-> c.images]

\* the iteration orders a readCluster of this cluster can see
ClusterImageOrders(cluster) == ImageOrders(CountNodes(cluster.nodes).images)

----------------------------------------------------------------------------
(* The handlers *)

\* the previous call was a Create of this name that committed state and whose
\* external calls all succeeded (its lookup found no cluster)
CleanCreate(r, n) ==
    /\ r.op = "Create"
    /\ r.name = n
    /\ r.committed
    /\ r.calls[1].err = ClusterGetNoNodesFoundError
    /\ \A i \in 2..Len(r.calls) : r.calls[i].err = ErrNil

\* a handler returns: its response, the state it committed with State.Set (if
\* it did) and the world its external calls left
Return(op, n, req, diags, calls, committed, data, images, cl, dk, kf) ==
    /\ resp' = [op |-> op, name |-> n, req |-> req, diags |-> diags,
                calls |-> calls, committed |-> committed, images |-> images,
                afterCreate |-> CleanCreate(resp, n)]
    /\ tfstate' = IF committed THEN [tfstate EXCEPT ![n] = data] ELSE tfstate
    /\ clusters' = [clusters EXCEPT ![n] = cl]
    /\ defaultKubeconfig' = dk
    /\ kubeconfigFiles' = kf
    /\ UNCHANGED <<faults, runtimeNodes, attribute>>

\* Read: the prior state is read, refreshed by readCluster and committed
\* unless a diagnostic is an error
Read(n) ==
    /\ ~IsNull(tfstate[n].Name)
    /\ LET data == tfstate[n]
           name == Value(data.Name)
       IN  \E err \in ClusterGetResults(clusters[name]) :
           \E order \in ClusterImageOrders(clusters[name]) :
             LET r == readCluster(data, err, clusters[name], order)
             IN  Return("Read", n, data, r.diags, <<Call("ClusterGet", err)>>,
                        ~HasError(r.diags), r.data, r.images,
                        clusters[n], defaultKubeconfig, kubeconfigFiles)

\* an Update that accepts the request and commits it
UpdateCommits(n) ==
    Return("Update", n, tfstate[n], <<>>, <<>>,
           TRUE, [tfstate[n] EXCEPT !.Name = StringValue(n)], {},
           clusters[n], defaultKubeconfig, kubeconfigFiles)

\* Update: one error diagnostic, nothing else
Update(n) ==
    Return("Update", n, NullData,
           <<NewErrorDiagnostic("Updates are unsupported", "")>>, <<>>,
           FALSE, NullData, {},
           clusters[n], defaultKubeconfig, kubeconfigFiles)

----------------------------------------------------------------------------
(* Create *)

\* the plan of a Create: what the configuration gives, the schema's defaults
\* for what it leaves out, unknown for what is computed
PlanData(n, servers, agents) ==
    [ID |-> StringUnknown, Name |-> StringValue(n),
     Servers |-> Int64Value(servers), Agents |-> Int64Value(agents),
     K8sHost |-> StringNull, K8sHostIP |-> StringValue("127.0.0.1"),
     K8sHostPort |-> Int64Value(6550), Image |-> StringValue("latest"),
     ImageSHA |-> StringUnknown, Network |-> StringUnknown]

\* a SimpleConfig with the two node counts taken from each other's field
SimpleConfigSwapped(data) ==
    [Servers |-> Value(data.Agents),
     Agents  |-> Value(data.Servers),
     Image   |-> Value(data.Image),
     Name    |-> Value(data.Name),
     Network |-> IF ~IsNull(data.Network) THEN Value(data.Network) ELSE "",
     ExposeAPI |->
        [Host     |-> IF ~IsNull(data.K8sHost) THEN Value(data.K8sHost) ELSE "",
         HostIP   |-> IF ~IsNull(data.K8sHostIP)
                        THEN Value(data.K8sHostIP) ELSE "",
         HostPort |-> IF ~IsNull(data.K8sHostPort)
                        THEN Int64String(data.K8sHostPort) ELSE <<>>]]

\* the config.SimpleConfig synthesized from the plan
SimpleConfig(data) ==
    [Servers |-> Value(data.Servers),
     Agents  |-> Value(data.Agents),
     Image   |-> Value(data.Image),
     Name    |-> Value(data.Name),
     Network |-> IF ~IsNull(data.Network) THEN Value(data.Network) ELSE "",
     ExposeAPI |->
        [Host     |-> IF ~IsNull(data.K8sHost) THEN Value(data.K8sHost) ELSE "",
         HostIP   |-> IF ~IsNull(data.K8sHostIP)
                        THEN Value(data.K8sHostIP) ELSE "",
         HostPort |-> IF ~IsNull(data.K8sHostPort)
                        THEN Int64String(data.K8sHostPort) ELSE <<>>]]

\* i nodes of one role and image
Nodes(i, role, image) == [k \in 1..i |-> [Role |-> role, Image |-> image]]

\* the cluster a successful ClusterRun of the configuration leaves: the servers
\* and agents asked for, the load balancer in front of them, the network and
\* the API binding
ClusterOf(conf) ==
    [nodes   |-> Nodes(conf.Servers, ServerRole, "rancher/k3s:" \o conf.Image)
                 \o Nodes(conf.Agents, AgentRole, "rancher/k3s:" \o conf.Image)
                 \o <<[Role |-> LoadBalancerRole, Image |-> "k3d-proxy"]>>,
     network |-> IF conf.Network = "" THEN "k3d-" \o conf.Name
                 ELSE conf.Network,
     kubeAPI |-> [present  |-> TRUE,
                  Host     |-> conf.ExposeAPI.Host,
                  HostIP   |-> conf.ExposeAPI.HostIP,
                  HostPort |-> conf.ExposeAPI.HostPort]]

\* ClusterRun cannot start nodes whose names are taken
ClusterRunResults(cur) == IF Present(cur) THEN {ErrOther} ELSE CallResults

\* what a failed ClusterRun can leave: the cluster that was in its way, or
\* nothing, or the nodes it had started
AfterFailedRun(cur, full) ==
    IF Present(cur) THEN {cur}
    ELSE {NoCluster, [full EXCEPT !.nodes = <<Head(full.nodes)>>]}

\* a successful ClusterDelete removes the nodes, a failed one leaves them
AfterClusterDelete(cl, err) == IF err = ErrNil THEN NoCluster ELSE cl

\* an existence check that never finds a cluster
AlreadyExistsNever(err) == FALSE

\* the existence check: a lookup without error is a cluster of that name
AlreadyExists(err) == err = ErrNil

\* a rollback with the options of Delete
RollbackChecksRegistry == FALSE

\* ClusterDeleteOpts of the rollback in Create, and of Delete
RollbackSkipRegistryCheck == TRUE
DeleteSkipRegistryCheck == FALSE

\* c.readCluster(ctx, &data), then State.Set unless a diagnostic is an error
CreateReadBack(n, plan, calls, diags, cl, dk) ==
    \E err \in ClusterGetResults(cl) :
    \E order \in ClusterImageOrders(cl) :
        LET r   == readCluster(plan, err, cl, order)
            all == diags \o r.diags
        IN  Return("Create", n, plan, all,
                   Append(calls, Call("ClusterGet", err)),
                   ~HasError(all), r.data, r.images,
                   cl, dk, kubeconfigFiles)

\* KubeconfigGetWrite into the default kubeconfig: a failure is a warning
CreateKubeconfig(n, plan, calls, cl) ==
    \E err \in CallResults :
        CreateReadBack(n, plan,
            Append(calls, Call("KubeconfigGetWrite", err)),
            IF err # ErrNil
              THEN <<NewWarningDiagnostic("Error writing kubeconfig", err)>>
              ELSE <<>>,
            cl,
            IF err = ErrNil THEN defaultKubeconfig \cup {n}
            ELSE defaultKubeconfig)

\* client.ClusterRun, and the rollback when it fails
CreateClusterRun(n, plan, calls) ==
    LET full == ClusterOf(SimpleConfig(plan))
    IN  \E err \in ClusterRunResults(clusters[n]) :
          IF err # ErrNil
            THEN \E left \in AfterFailedRun(clusters[n], full) :
                 \E delErr \in CallResults :
                    Return("Create", n, plan,
                        <<NewErrorDiagnostic("Error creating cluster", err)>>
                        \o (IF delErr # ErrNil
                              THEN <<NewWarningDiagnostic(
                                  "Error rolling back failed cluster creation",
                                  delErr)>>
                              ELSE <<>>),
                        calls \o <<Call("ClusterRun", err),
                                   CallClusterDelete(RollbackSkipRegistryCheck,
                                                     delErr)>>,
                        FALSE, plan, {},
                        AfterClusterDelete(left, delErr),
                        defaultKubeconfig, kubeconfigFiles)
            ELSE CreateKubeconfig(n, plan,
                                  Append(calls, Call("ClusterRun", err)), full)

\* a configuration step that failed: its error diagnostic, and return
CreateAbort(n, plan, calls, summary, err) ==
    Return("Create", n, plan, <<NewErrorDiagnostic(summary, err)>>, calls,
           FALSE, plan, {}, clusters[n], defaultKubeconfig, kubeconfigFiles)

CreateValidateClusterConfig(n, plan, calls) ==
    \E err \in CallResults :
        LET cs == Append(calls, Call("ValidateClusterConfig", err))
        IN  IF err # ErrNil
              THEN CreateAbort(n, plan, cs,
                               "Error validating cluster config", err)
              ELSE CreateClusterRun(n, plan, cs)

\* a ProcessClusterConfig step whose failure is not looked at
CreateProcessClusterConfigGoesOn(n, plan, calls) ==
    \E err \in CallResults :
        CreateValidateClusterConfig(n, plan,
            Append(calls, Call("ProcessClusterConfig", err)))

CreateProcessClusterConfig(n, plan, calls) ==
    \E err \in CallResults :
        LET cs == Append(calls, Call("ProcessClusterConfig", err))
        IN  IF err # ErrNil
              THEN CreateAbort(n, plan, cs,
                               "Error processing cluster config", err)
              ELSE CreateValidateClusterConfig(n, plan, cs)

CreateTransformSimpleToClusterConfig(n, plan, calls) ==
    \E err \in CallResults :
        LET cs == Append(calls, Call("TransformSimpleToClusterConfig", err))
        IN  IF err # ErrNil
              THEN CreateAbort(n, plan, cs,
                       "Error transforming simple config to cluster config", err)
              ELSE CreateProcessClusterConfig(n, plan, cs)

CreateProcessSimpleConfig(n, plan, calls) ==
    \E err \in CallResults :
        LET cs == Append(calls, Call("ProcessSimpleConfig", err))
        IN  IF err # ErrNil
              THEN CreateAbort(n, plan, cs,
                       "Error processing K3D simple configuration", err)
              ELSE CreateTransformSimpleToClusterConfig(n, plan, cs)

\* Create: the existence check first, then the configuration and the run
Create(n, servers, agents) ==
    LET plan == PlanData(n, servers, agents)
    IN  \E err \in ClusterGetResults(clusters[n]) :
          IF AlreadyExists(err)
            THEN CreateAbort(n, plan, <<Call("ClusterGet", err)>>,
                     "A cluster with the same name already exists", n)
            ELSE CreateProcessSimpleConfig(n, plan, <<Call("ClusterGet", err)>>)

----------------------------------------------------------------------------
(* Delete *)

\* the results os.Remove of kubeconfig-<name>.yaml can have
RemoveResults(name) ==
    (IF name \in kubeconfigFiles THEN {ErrNil} ELSE {ErrNotExist})
    \cup (IF faults THEN {ErrOther} ELSE {})

\* a test that takes a missing file for a failure like any other
IsNotExistNever(err) == FALSE

\* os.IsNotExist
IsNotExist(err) == err = ErrNotExist

\* a comparison with the wrong sentinel error
IsNoNodesFoundWrongError(err) == err = ErrNotExist

\* a test that takes every lookup error for an absent cluster
IsNoNodesFoundAnyError(err) == err # ErrNil

\* errors.Is(err, client.ClusterGetNoNodesFoundError)
IsNoNodesFound(err) == err = ClusterGetNoNodesFoundError

\* the standalone kubeconfig: the config directory, then os.Remove of the file
DeleteKubeconfigFile(n, data, calls, diags, cl, dk) ==
    \E dirErr \in CallResults :
      IF dirErr # ErrNil
        THEN Return("Delete", n, data,
                 Append(diags, NewErrorDiagnostic(
                     "Failed to delete kubeconfig file", dirErr)),
                 Append(calls, Call("GetConfigDirOrCreate", dirErr)),
                 FALSE, data, {}, cl, dk, kubeconfigFiles)
        ELSE \E err \in RemoveResults(n) :
             Return("Delete", n, data,
                 IF err # ErrNil /\ ~IsNotExist(err)
                   THEN Append(diags, NewErrorDiagnostic(
                       "Failed to delete kubeconfig file 'kubeconfig-"
                           \o n \o ".yaml'", err))
                   ELSE diags,
                 calls \o <<Call("GetConfigDirOrCreate", dirErr),
                            Call("os.Remove", err)>>,
                 FALSE, data, {}, cl, dk,
                 IF err = ErrNil THEN kubeconfigFiles \ {n}
                 ELSE kubeconfigFiles)

\* KubeconfigRemoveClusterFromDefaultConfig
DeleteKubeconfigEntry(n, data, calls, diags, cl) ==
    \E err \in CallResults :
        DeleteKubeconfigFile(n, data,
            Append(calls,
                   Call("KubeconfigRemoveClusterFromDefaultConfig", err)),
            IF err # ErrNil
              THEN Append(diags, NewErrorDiagnostic(
                       "Failed to remove kubeconfig from default config", err))
              ELSE diags,
            cl,
            IF err = ErrNil THEN defaultKubeconfig \ {n}
            ELSE defaultKubeconfig)

\* client.ClusterDelete of the cluster found
DeleteCluster(n, data, calls) ==
    \E err \in CallResults :
        DeleteKubeconfigEntry(n, data,
            Append(calls, CallClusterDelete(DeleteSkipRegistryCheck, err)),
            IF err # ErrNil
              THEN <<NewErrorDiagnostic("Failed to delete the cluster", err)>>
              ELSE <<>>,
            AfterClusterDelete(clusters[n], err))

\* Delete: the lookup first; a cluster without nodes is already gone
Delete(n) ==
    /\ ~IsNull(tfstate[n].Name)
    /\ LET data == tfstate[n]
           name == Value(data.Name)
       IN  \E err \in ClusterGetResults(clusters[name]) :
             IF err # ErrNil
               THEN Return("Delete", name, data,
                        IF IsNoNodesFound(err) THEN <<>>
                        ELSE <<NewErrorDiagnostic("Error reading k3d cluster",
                                                  err)>>,
                        <<Call("ClusterGet", err)>>,
                        FALSE, data, {},
                        clusters[name], defaultKubeconfig, kubeconfigFiles)
               ELSE DeleteCluster(name, data, <<Call("ClusterGet", err)>>)

----------------------------------------------------------------------------
(* The specification: the host engine calls the handlers one at a time *)

NoResponse ==
    [op |-> "none", name |-> "", req |-> NullData, diags |-> <<>>,
     calls |-> <<>>, committed |-> FALSE, images |-> {},
     afterCreate |-> FALSE]

Init ==
    /\ clusters = [n \in Names |-> NoCluster]
    /\ defaultKubeconfig = {}
    /\ kubeconfigFiles \in SUBSET Names
    /\ tfstate = [n \in Names |-> NullData]
    /\ resp = NoResponse
    /\ faults = TRUE
    /\ runtimeNodes = <<>>
    /\ attribute = NoAttribute

Next ==
    \/ \E n \in Names, servers \in 0..MaxServers, agents \in 0..MaxAgents :
           Create(n, servers, agents)
    \/ \E n \in Names : Read(n)
    \/ \E n \in Names : Update(n)
    \/ \E n \in Names : Delete(n)

Spec == Init /\ [][Next]_vars

\* the same handlers where every external call succeeds and every lookup
\* reports what is there
InitAllSucceed ==
    /\ clusters = [n \in Names |-> NoCluster]
    /\ defaultKubeconfig = {}
    /\ kubeconfigFiles \in SUBSET Names
    /\ tfstate = [n \in Names |-> NullData]
    /\ resp = NoResponse
    /\ faults = FALSE
    /\ runtimeNodes = <<>>
    /\ attribute = NoAttribute

SpecAllSucceed == InitAllSucceed /\ [][Next]_vars

----------------------------------------------------------------------------
(* readCluster on the clusters the runtime can hold: any list of nodes of    *)
(* any role and image, with or without an API binding, read into any prior *)
(* state                                                                   *)

NodeRoles == {ServerRole, AgentRole, LoadBalancerRole, RegistryRole}
NodeImages == {"rancher/k3s:v1", "rancher/k3s:v2"}
NodeKinds == [Role : NodeRoles, Image : NodeImages]
NodeLists == UNION {[1..k -> NodeKinds] : k \in 0..MaxNodeList}

HostPorts == {<<"6", "5", "5", "0">>, <<"4", "0", "0", "0", "0">>, <<"x">>}

KubeAPIs ==
    {NoKubeAPI}
    \cup {[present |-> TRUE, Host |-> "", HostIP |-> "127.0.0.1",
           HostPort |-> p] : p \in HostPorts}

RuntimeClusters(n) ==
    {[nodes |-> ns, network |-> "k3d-" \o n, kubeAPI |-> api] :
        ns \in NodeLists, api \in KubeAPIs}

\* the states a Read can find: what an earlier Create or Read committed
PriorStates(n) ==
    {[PlanData(n, 1, 0) EXCEPT !.ID = StringValue(n), !.ImageSHA = sha,
                               !.Network = StringValue("k3d-" \o n)] :
        sha \in {StringValue("rancher/k3s:v1"), StringUnknown}}

InitReadCluster ==
    /\ clusters \in [Names -> UNION {RuntimeClusters(n) : n \in Names}]
    /\ \A n \in Names : clusters[n] \in RuntimeClusters(n)
    /\ defaultKubeconfig = {}
    /\ kubeconfigFiles = {}
    /\ tfstate \in [Names -> UNION {PriorStates(n) : n \in Names}]
    /\ \A n \in Names : tfstate[n] \in PriorStates(n)
    /\ resp = NoResponse
    /\ faults = TRUE
    /\ runtimeNodes = <<>>
    /\ attribute = NoAttribute

NextReadCluster == \E n \in Names : Read(n)

SpecReadCluster == InitReadCluster /\ [][NextReadCluster]_vars


----------------------------------------------------------------------------
(* The nodes data source (internal/provider/datasource_k3d_nodes.go,         *)
(* lines 1-180)                                                            *)

\* node lists drawn for the data source have at most this length
MaxRuntimeNodes == 3

\* the runtime label that names the cluster a node belongs to
ClusterLabel == "k3d.cluster"

\* a filter that keeps the nodes of every cluster
NodeSkippedNever(node, clusterName) == FALSE

\* the loop's filter: nodes without the label, or of another cluster
NodeSkipped(node, clusterName) ==
    LET ok == ClusterLabel \in DOMAIN node.RuntimeLabels
    IN  ~ok \/ node.RuntimeLabels[ClusterLabel] # clusterName

RECURSIVE FlattenBindings(_, _, _)
\* the loop over the bindings of one port: a binding whose host port does
\* not parse is passed over, every other one is appended
FlattenBindings(port, bindings, ports) ==
    IF bindings = <<>> THEN ports
    ELSE LET binding  == Head(bindings)
             hostPort == ParseInt(binding.HostPort, PortBitSize)
         IN  FlattenBindings(port, Tail(bindings),
                 IF hostPort.err # ErrNil THEN ports
                 ELSE Append(ports, [Port     |-> port,
                                     HostIP   |-> binding.HostIP,
                                     HostPort |-> hostPort.value]))

RECURSIVE FlattenPorts(_, _)
\* the loop over node.Ports, in the order the range visits the map
FlattenPorts(nodePorts, ports) ==
    IF nodePorts = <<>> THEN ports
    ELSE FlattenPorts(Tail(nodePorts),
             FlattenBindings(Head(nodePorts).port, Head(nodePorts).bindings,
                             ports))

\* the k3dNode stored for a node that is kept
K3dNodeOf(node) ==
    [Name          |-> node.Name,
     Role          |-> node.Role,
     Ports         |-> FlattenPorts(node.Ports, <<>>),
     RuntimeLabels |-> node.RuntimeLabels,
     NodeLabels    |-> node.K3sNodeLabels,
     Networks      |-> node.Networks,
     IP            |-> node.IP]

RECURSIVE NodesLoop(_, _, _)
\* the loop over the nodes: newNodes[node.Name] = k3dNode{...}
NodesLoop(nodes, clusterName, newNodes) ==
    IF nodes = <<>> THEN newNodes
    ELSE LET node == Head(nodes)
         IN  NodesLoop(Tail(nodes), clusterName,
                 IF NodeSkipped(node, clusterName) THEN newNodes
                 ELSE (node.Name :> K3dNodeOf(node)) @@ newNodes)

\* the empty map: make(map[string]k3dNode)
NoNodes == [name \in {} |-> name]

\* k3dNodesDataSource.Read: the list of all nodes, filtered and flattened,
\* committed with State.Set
NodesRead(clusterName) ==
    \E err \in CallResults :
        LET data == [ClusterName |-> StringValue(clusterName),
                     Id          |-> StringNull,
                     Nodes       |-> NoNodes]
        IN  /\ resp' =
                 IF err # ErrNil
                   THEN [op |-> "NodesRead", name |-> clusterName,
                         diags |-> <<NewErrorDiagnostic(
                                       "Failed to list K3d nodes", err)>>,
                         calls |-> <<Call("NodeList", err)>>,
                         committed |-> FALSE, data |-> data]
                   ELSE [op |-> "NodesRead", name |-> clusterName,
                         diags |-> <<>>,
                         calls |-> <<Call("NodeList", err)>>,
                         committed |-> TRUE,
                         data |-> [data EXCEPT
                                     !.Id = data.ClusterName,
                                     !.Nodes = NodesLoop(runtimeNodes,
                                                   clusterName, NoNodes)]]
            /\ UNCHANGED <<clusters, defaultKubeconfig, kubeconfigFiles,
                           tfstate, faults, runtimeNodes, attribute>>

\* the cluster names a data source configuration asks for
ClusterNames == {"test", "other"}

\* the runtime labels of a node: of the cluster asked for, of another
\* cluster, or without the cluster label
RuntimeLabelSets ==
    {(ClusterLabel :> "test") @@ ("app" :> "k3d"),
     (ClusterLabel :> "other") @@ ("app" :> "k3d"),
     ("app" :> "registry")}

PortBinding(hostPort) == [HostIP |-> "0.0.0.0", HostPort |-> hostPort]

\* the port maps of a node, each in an order a range can visit it: no port,
\* a port with a numeric and a non-numeric binding, a port with a
\* non-numeric binding only, two ports with numeric bindings
NodePortMaps ==
    {<<>>,
     <<[port |-> 6443,
        bindings |-> <<PortBinding(<<"6", "5", "5", "0">>),
                       PortBinding(<<"x">>)>>]>>,
     <<[port |-> 6443, bindings |-> <<PortBinding(<<"x">>)>>]>>,
     <<[port |-> 80,
        bindings |-> <<PortBinding(<<"4", "0", "0", "0", "0">>)>>],
       [port |-> 6443,
        bindings |-> <<PortBinding(<<"6", "5", "5", "0">>)>>]>>}

\* the i-th node of the runtime: container names are unique
RuntimeNodeName(i) ==
    IF i = 1 THEN "k3d-test-serverlb"
    ELSE IF i = 2 THEN "k3d-test-server-0"
    ELSE "k3d-test-agent-" \o ToString(i - 3)

RuntimeNodeRole(i) ==
    IF i = 1 THEN LoadBalancerRole
    ELSE IF i = 2 THEN ServerRole
    ELSE AgentRole

RuntimeNodes(i) ==
    {[Name |-> RuntimeNodeName(i), Role |-> RuntimeNodeRole(i),
      RuntimeLabels |-> labels, Ports |-> ports,
      K3sNodeLabels |-> NoNodes, Networks |-> <<"k3d-test">>,
      IP |-> "172.18.0." \o ToString(i + 1)] :
        labels \in RuntimeLabelSets, ports \in NodePortMaps}

RuntimeNodeLists ==
    UNION {{l \in [1..k -> UNION {RuntimeNodes(i) : i \in 1..k}] :
               \A i \in 1..k : l[i] \in RuntimeNodes(i)} :
           k \in 0..MaxRuntimeNodes}

InitNodes ==
    /\ clusters = [n \in Names |-> NoCluster]
    /\ defaultKubeconfig = {}
    /\ kubeconfigFiles = {}
    /\ tfstate = [n \in Names |-> NullData]
    /\ resp = NoResponse
    /\ faults = TRUE
    /\ runtimeNodes \in RuntimeNodeLists
    /\ attribute = NoAttribute

NextNodes == \E clusterName \in ClusterNames : NodesRead(clusterName)

SpecNodes == InitNodes /\ [][NextNodes]_vars

----------------------------------------------------------------------------
(* The validators (internal/provider/validators.go).  The strings they are   *)
(* given are sequences of characters.                                      *)

\* validatordiag.InvalidAttributeValueDiagnostic: an error at the attribute
InvalidAttributeValueDiagnostic(path, description, value) ==
    [severity |-> "error", summary |-> "Invalid Attribute Value",
     detail |-> "Attribute " \o path \o " " \o description \o ", got: "
                  \o Join(value),
     path |-> path]

\* a range test with the upper limit of a signed 16-bit integer
PortOutOfRangeSigned(port) == port < 1 \/ port > 32767

\* the range test of the port validator
PortOutOfRange(port) == port < 1 \/ port > 65535

\* portValidator.Validate: the diagnostics it adds for a configured value
portValidator(path, i) ==
    IF i.unknown \/ i.null THEN <<>>
    ELSE IF PortOutOfRange(i.value)
      THEN <<InvalidAttributeValueDiagnostic(path,
                 "A valid port in the range of 1-65535", FormatInt(i.value))>>
    ELSE <<>>

HexDigits ==
    {"0", "1", "2", "3", "4", "5", "6", "7", "8", "9",
     "a", "b", "c", "d", "e", "f", "A", "B", "C", "D", "E", "F"}

\* s without its first k characters
Drop(s, k) == SubSeq(s, k + 1, Len(s))

RECURSIVE ParseIPv4Fields(_, _, _, _)
\* the IPv4 parser of net.ParseIP: four decimal fields of at most 255,
\* separated by dots, none empty, none with a leading zero; pos counts the
\* fields completed, val and digLen describe the field being read
ParseIPv4Fields(s, pos, val, digLen) ==
    IF s = <<>> THEN pos = 3 /\ digLen > 0
    ELSE IF IsDigit(Head(s))
      THEN /\ ~(digLen > 0 /\ val = 0)
           /\ val * 10 + DigitValue(Head(s)) <= 255
           /\ ParseIPv4Fields(Tail(s), pos,
                              val * 10 + DigitValue(Head(s)), digLen + 1)
    ELSE IF Head(s) = "."
      THEN /\ digLen > 0
           /\ Tail(s) # <<>>
           /\ pos # 3
           /\ ParseIPv4Fields(Tail(s), pos + 1, 0, 0)
    ELSE FALSE

\* the length of the run of hexadecimal digits s starts with
HexRun(s) ==
    CHOOSE k \in 0..Len(s) :
        /\ \A j \in 1..k : s[j] \in HexDigits
        /\ k = Len(s) \/ s[k + 1] \notin HexDigits

\* the end of the IPv6 parser: nothing may be left; fewer than 16 bytes need
\* a "::" to expand, 16 bytes must not have one
ParseIPv6End(s, i, ellipsis) ==
    /\ s = <<>>
    /\ IF i < 16 THEN ellipsis >= 0 ELSE ellipsis < 0

RECURSIVE ParseIPv6Groups(_, _, _)
\* the loop of the IPv6 parser of net.ParseIP over the groups of s: i bytes
\* are filled, ellipsis is the byte position of "::" or -1
ParseIPv6Groups(s, i, ellipsis) ==
    LET off  == HexRun(s)
        rest == Drop(s, off)
    IN  IF off > 4 \/ off = 0 THEN FALSE
        ELSE IF rest # <<>> /\ Head(rest) = "."
          THEN /\ ~(ellipsis < 0 /\ i # 12)
               /\ i + 4 <= 16
               /\ ParseIPv4Fields(s, 0, 0, 0)
               /\ ParseIPv6End(<<>>, i + 4, ellipsis)
        ELSE IF rest = <<>> THEN ParseIPv6End(<<>>, i + 2, ellipsis)
        ELSE IF Head(rest) # ":" \/ Len(rest) = 1 THEN FALSE
        ELSE IF Head(Tail(rest)) = ":"
          THEN IF ellipsis >= 0 THEN FALSE
               ELSE IF Len(rest) = 2 \/ i + 2 >= 16
                 THEN ParseIPv6End(Drop(rest, 2), i + 2, i + 2)
               ELSE ParseIPv6Groups(Drop(rest, 2), i + 2, i + 2)
        ELSE IF i + 2 >= 16 THEN ParseIPv6End(Tail(rest), i + 2, ellipsis)
        ELSE ParseIPv6Groups(Tail(rest), i + 2, ellipsis)

\* the IPv6 parser of net.ParseIP: a leading "::" is an ellipsis at byte 0
ParseIPv6(s) ==
    IF Len(s) >= 2 /\ s[1] = ":" /\ s[2] = ":"
      THEN Len(s) = 2 \/ ParseIPv6Groups(Drop(s, 2), 0, 0)
      ELSE ParseIPv6Groups(s, 0, -1)

\* a parser that knows IPv4 only
ParseIPv4Only(s) == ParseIPv4Fields(s, 0, 0, 0)

\* net.ParseIP(s) # nil: the first of '.', ':' and '%' in s decides between
\* the IPv4 and the IPv6 parser; an address with a zone is refused
ParseIP(s) ==
    LET seps == {j \in 1..Len(s) : s[j] \in {".", ":", "%"}}
        first == IF seps = {} THEN ""
                 ELSE s[CHOOSE j \in seps : \A k \in seps : j <= k]
    IN  IF first = "." THEN ParseIPv4Fields(s, 0, 0, 0)
        ELSE IF first = ":"
          THEN (\A j \in 1..Len(s) : s[j] # "%") /\ ParseIPv6(s)
        ELSE FALSE

\* ipValidator.Validate: the diagnostics it adds for a configured value
ipValidator(path, ip) ==
    IF ip.unknown \/ ip.null THEN <<>>
    ELSE IF ~ParseIP(ip.value)
      THEN <<InvalidAttributeValueDiagnostic(path,
                 "A valid IPv4 address in dotted-quad notation", ip.value)>>
    ELSE <<>>

\* the framework runs the validator of the attribute on its configured value
ValidatePort ==
    /\ attribute.kind = "int64"
    /\ resp' = [op |-> "Validate", name |-> attribute.path,
                diags |-> portValidator(attribute.path, attribute.value),
                calls |-> <<>>, committed |-> FALSE]
    /\ UNCHANGED <<clusters, defaultKubeconfig, kubeconfigFiles, tfstate,
                   faults, runtimeNodes, attribute>>

ValidateIP ==
    /\ attribute.kind = "string"
    /\ resp' = [op |-> "Validate", name |-> attribute.path,
                diags |-> ipValidator(attribute.path, attribute.value),
                calls |-> <<>>, committed |-> FALSE]
    /\ UNCHANGED <<clusters, defaultKubeconfig, kubeconfigFiles, tfstate,
                   faults, runtimeNodes, attribute>>

\* the values a configuration can give k8s_api_host_port
PortConfigValues ==
    {Int64Null, Int64Unknown}
    \cup {Int64Value(v) :
            v \in {-1, 0, 1, 80, 6550, 32767, 32768, 65535, 65536}}

\* the fields the dotted strings are built from
DottedFields ==
    {<<"0">>, <<"1">>, <<"2", "5", "5">>, <<"2", "5", "6">>, <<"0", "1">>,
     <<"x">>, <<>>}

\* four fields with dots between them
DottedStrings ==
    {f[1] \o <<".">> \o f[2] \o <<".">> \o f[3] \o <<".">> \o f[4] :
        f \in [1..4 -> DottedFields]}

\* "127.0.0.1", "10.0.0.5", "1.1.1", "1.1.1.1.1", "not-an-ip", "", and the
\* IPv6 literals "::1", "::", "fe80::1", "1:2:3:4:5:6:7:8", "1:2:3:4:5:6:7",
\* "::ffff:10.0.0.5", "1:2:3:4:5:6:1.1.1.1", "1:1.1.1.1", "1::2::3",
\* "::1%eth0", "12345::", ":1", "1:", "1:2:3:4:5:6:7:8:9",
\* "::1:2:3:4:5:6:7:8"
OtherStrings ==
    {<<"1", "2", "7", ".", "0", ".", "0", ".", "1">>,
     <<"1", "0", ".", "0", ".", "0", ".", "5">>,
     <<"1", ".", "1", ".", "1">>,
     <<"1", ".", "1", ".", "1", ".", "1", ".", "1">>,
     <<"n", "o", "t", "-", "a", "n", "-", "i", "p">>,
     <<>>,
     <<":", ":", "1">>,
     <<":", ":">>,
     <<"f", "e", "8", "0", ":", ":", "1">>,
     <<"1", ":", "2", ":", "3", ":", "4", ":", "5", ":", "6", ":", "7", ":",
       "8">>,
     <<"1", ":", "2", ":", "3", ":", "4", ":", "5", ":", "6", ":", "7">>,
     <<":", ":", "f", "f", "f", "f", ":", "1", "0", ".", "0", ".", "0", ".",
       "5">>,
     <<"1", ":", "2", ":", "3", ":", "4", ":", "5", ":", "6", ":", "1", ".",
       "1", ".", "1", ".", "1">>,
     <<"1", ":", "1", ".", "1", ".", "1", ".", "1">>,
     <<"1", ":", ":", "2", ":", ":", "3">>,
     <<":", ":", "1", "%", "e", "t", "h", "0">>,
     <<"1", "2", "3", "4", "5", ":", ":">>,
     <<":", "1">>,
     <<"1", ":">>,
     <<"1", ":", "2", ":", "3", ":", "4", ":", "5", ":", "6", ":", "7", ":",
       "8", ":", "9">>,
     <<":", ":", "1", ":", "2", ":", "3", ":", "4", ":", "5", ":", "6", ":",
       "7", ":", "8">>}

\* the values a configuration can give k8s_api_host_ip
IPConfigValues ==
    {StringNull, StringUnknown}
    \cup {StringValue(s) : s \in DottedStrings \cup OtherStrings}

InitValidators ==
    /\ clusters = [n \in Names |-> NoCluster]
    /\ defaultKubeconfig = {}
    /\ kubeconfigFiles = {}
    /\ tfstate = [n \in Names |-> NullData]
    /\ resp = NoResponse
    /\ faults = TRUE
    /\ runtimeNodes = <<>>
    /\ \/ attribute \in
            {[kind |-> "int64", path |-> "k8s_api_host_port", value |-> v] :
                v \in PortConfigValues}
       \/ attribute \in
            {[kind |-> "string", path |-> "k8s_api_host_ip", value |-> v] :
                v \in IPConfigValues}

NextValidators == ValidatePort \/ ValidateIP

SpecValidators == InitValidators /\ [][NextValidators]_vars

----------------------------------------------------------------------------
(* The default plan modifiers (internal/provider/plan_modifiers.go)          *)

\* plan values 0..MaxPlanInt are drawn for the integer attributes
MaxPlanInt == 7

\* a test that takes an unknown planned value for a configured one
PlannedNotNull(v) == ~v.null

\* the test of the string and integer modifiers: the planned value is given
Planned(v) == ~v.null /\ ~v.unknown

\* stringDefaultModifier.Modify: the planned value it leaves
stringDefaultModifier(Default, str) ==
    IF Planned(str) THEN str
    ELSE [null |-> FALSE, unknown |-> FALSE, value |-> Default]

\* intDefaultModifier.Modify: the planned value it leaves
intDefaultModifier(Default, i) ==
    IF Planned(i) THEN i
    ELSE [null |-> FALSE, unknown |-> FALSE, value |-> Default]

\* the modifiers the schema attaches, by attribute
StringDefaults == [image |-> "latest", k8s_api_host_ip |-> "127.0.0.1"]
IntDefaults == [servers |-> 1, agents |-> 0, k8s_api_host_port |-> 6550]

\* the framework runs the modifier of the attribute on its planned value
ModifyString ==
    /\ attribute.kind = "string"
    /\ attribute' =
         [attribute EXCEPT
            !.value = stringDefaultModifier(StringDefaults[attribute.path], @)]
    /\ resp' = [op |-> "Modify", name |-> attribute.path,
                default |-> StringDefaults[attribute.path],
                plan |-> attribute.value,
                diags |-> <<>>, calls |-> <<>>, committed |-> FALSE]
    /\ UNCHANGED <<clusters, defaultKubeconfig, kubeconfigFiles, tfstate,
                   faults, runtimeNodes>>

ModifyInt ==
    /\ attribute.kind = "int64"
    /\ attribute' =
         [attribute EXCEPT
            !.value = intDefaultModifier(IntDefaults[attribute.path], @)]
    /\ resp' = [op |-> "Modify", name |-> attribute.path,
                default |-> IntDefaults[attribute.path],
                plan |-> attribute.value,
                diags |-> <<>>, calls |-> <<>>, committed |-> FALSE]
    /\ UNCHANGED <<clusters, defaultKubeconfig, kubeconfigFiles, tfstate,
                   faults, runtimeNodes>>

\* objectDefaultModifier.Modify: the planned value it leaves
objectDefaultModifier(Default, obj) == IF ~obj.null THEN obj ELSE Default

\* the framework runs an object modifier on the planned value of its attribute
ModifyObject ==
    /\ attribute.kind = "object"
    /\ attribute' =
         [attribute EXCEPT
            !.value = objectDefaultModifier(attribute.default, @)]
    /\ resp' = [op |-> "ModifyObject", name |-> attribute.path,
                default |-> attribute.default,
                plan |-> attribute.value,
                diags |-> <<>>, calls |-> <<>>, committed |-> FALSE]
    /\ UNCHANGED <<clusters, defaultKubeconfig, kubeconfigFiles, tfstate,
                   faults, runtimeNodes>>

\* types.Object: null, unknown, or known with the attributes of expose_api
ObjectAttrs ==
    {[host_ip |-> ip, host_port |-> port] :
        ip \in {StringNull, StringValue("127.0.0.1"), StringValue("0.0.0.0")},
        port \in {Int64Null, Int64Value(6550), Int64Value(8443)}}
ObjectNull ==
    [null |-> TRUE, unknown |-> FALSE,
     value |-> [host_ip |-> StringNull, host_port |-> Int64Null]]
ObjectUnknown ==
    [null |-> FALSE, unknown |-> TRUE,
     value |-> [host_ip |-> StringNull, host_port |-> Int64Null]]
ObjectValue(attrs) == Known(attrs)

\* the planned values of an object attribute, and the defaults of a modifier
ObjectPlanValues ==
    {ObjectNull, ObjectUnknown} \cup {ObjectValue(attrs) : attrs \in ObjectAttrs}
ObjectDefaults ==
    {ObjectValue([host_ip |-> StringValue("127.0.0.1"),
                  host_port |-> Int64Value(6550)]),
     ObjectValue([host_ip |-> StringNull, host_port |-> Int64Null])}

\* the planned values of the string and integer attributes
StringPlanValues ==
    {StringNull, StringUnknown}
    \cup {StringValue(s) :
            s \in {"", "latest", "v1.27.4-k3s1", "127.0.0.1", "10.0.0.5"}}

IntPlanValues ==
    {Int64Null, Int64Unknown}
    \cup {Int64Value(v) : v \in (0..MaxPlanInt) \cup {-1, 6550, 65535}}

InitPlanModifiers ==
    /\ clusters = [n \in Names |-> NoCluster]
    /\ defaultKubeconfig = {}
    /\ kubeconfigFiles = {}
    /\ tfstate = [n \in Names |-> NullData]
    /\ resp = NoResponse
    /\ faults = TRUE
    /\ runtimeNodes = <<>>
    /\ \/ attribute \in
            {[kind |-> "string", path |-> p, value |-> v] :
                p \in DOMAIN StringDefaults, v \in StringPlanValues}
       \/ attribute \in
            {[kind |-> "int64", path |-> p, value |-> v] :
                p \in DOMAIN IntDefaults, v \in IntPlanValues}
       \/ attribute \in
            {[kind |-> "object", path |-> "expose_api", default |-> d,
              value |-> v] :
                d \in ObjectDefaults, v \in ObjectPlanValues}

NextPlanModifiers == ModifyString \/ ModifyInt \/ ModifyObject

SpecPlanModifiers == InitPlanModifiers /\ [][NextPlanModifiers]_vars

----------------------------------------------------------------------------
(* The configuration Create synthesizes from what the caller wrote, in the *)
(* three variants of the resource: the flat schema with schema defaults    *)
(* (resource_k3d_cluster.go, lines 1-400), the flat schema with default    *)
(* plan modifiers (lines 402-809) and the expose_api schema                *)
(* (unnamed/part_000)                                                      *)

\* a schema default that also replaces a given zero
Int64DefaultOnZero(cfg, Default) ==
    IF cfg.null \/ cfg.value = 0 THEN Int64Value(Default) ELSE cfg

\* Default: int64default.StaticInt64(d): the plan gets the default when the
\* configuration leaves the attribute out
Int64Default(cfg, Default) == IF cfg.null THEN Int64Value(Default) ELSE cfg

\* Default: stringdefault.StaticString(d)
StringDefault(cfg, Default) == IF cfg.null THEN StringValue(Default) ELSE cfg

\* a computed attribute the configuration leaves out is unknown in the plan
ComputedInt64(cfg) == IF cfg.null THEN Int64Unknown ELSE cfg
ComputedString(cfg) == IF cfg.null THEN StringUnknown ELSE cfg

\* req.Plan of the flat schema with schema defaults
FlatPlan(cfg) ==
    [cfg EXCEPT !.ID = StringUnknown,
                !.Servers = Int64Default(@, 1),
                !.Agents = Int64Default(@, 0),
                !.K8sHostIP = StringDefault(@, "127.0.0.1"),
                !.K8sHostPort = Int64Default(@, 6550),
                !.Image = StringDefault(@, "latest"),
                !.ImageSHA = StringUnknown,
                !.Network = ComputedString(@)]

\* req.Plan of the flat schema with default plan modifiers
ModifiersPlan(cfg) ==
    [cfg EXCEPT !.ID = StringUnknown,
                !.Servers =
                    intDefaultModifier(IntDefaults.servers, ComputedInt64(@)),
                !.Agents =
                    intDefaultModifier(IntDefaults.agents, ComputedInt64(@)),
                !.K8sHostIP =
                    stringDefaultModifier(StringDefaults.k8s_api_host_ip,
                                          ComputedString(@)),
                !.K8sHostPort =
                    intDefaultModifier(IntDefaults.k8s_api_host_port,
                                       ComputedInt64(@)),
                !.Image =
                    stringDefaultModifier(StringDefaults.image,
                                          ComputedString(@)),
                !.ImageSHA = StringUnknown,
                !.Network = ComputedString(@)]

\* the config.SimpleConfig of the expose_api variant, synthesized from
\* req.Config: Servers, Agents and Image get a value when null, every other
\* field is read as it is and the port is rendered whatever it holds
HistoricalSimpleConfig(data) ==
    [Servers |-> IF IsNull(data.Servers) THEN 1 ELSE Value(data.Servers),
     Agents  |-> IF IsNull(data.Agents) THEN 0 ELSE Value(data.Agents),
     Image   |-> IF IsNull(data.Image) THEN "latest" ELSE Value(data.Image),
     Name    |-> Value(data.Name),
     Network |-> Value(data.Network),
     ExposeAPI |->
        [Host     |-> Value(data.K8sHost),
         HostIP   |-> Value(data.K8sHostIP),
         HostPort |-> Int64String(data.K8sHostPort)]]

\* the response of a synthesis: the variant, what the caller wrote and the
\* configuration handed to ProcessSimpleConfig
Synthesized(variant, conf) ==
    /\ resp' = [op |-> "Synthesize", name |-> variant,
                config |-> attribute.value, conf |-> conf,
                diags |-> <<>>, calls |-> <<>>, committed |-> FALSE]
    /\ UNCHANGED <<clusters, defaultKubeconfig, kubeconfigFiles, tfstate,
                   faults, runtimeNodes, attribute>>

SynthesizeFlat ==
    /\ attribute.kind = "config"
    /\ Synthesized("flat", SimpleConfig(FlatPlan(attribute.value)))

SynthesizeModifiers ==
    /\ attribute.kind = "config"
    /\ Synthesized("modifiers", SimpleConfig(ModifiersPlan(attribute.value)))

SynthesizeHistorical ==
    /\ attribute.kind = "config"
    /\ Synthesized("expose_api", HistoricalSimpleConfig(attribute.value))

\* what a caller can write and the validators let through; in the expose_api
\* variant K8sHost, K8sHostIP and K8sHostPort are the attributes of a written
\* expose_api block
ConfigServers == {Int64Null} \cup {Int64Value(i) : i \in 0..MaxServers}
ConfigAgents == {Int64Null} \cup {Int64Value(i) : i \in 0..MaxAgents}
ConfigImages == {StringNull} \cup {StringValue(s) : s \in {"", "latest", "v1"}}
ConfigHostIPs ==
    {StringNull} \cup {StringValue(s) : s \in {"127.0.0.1", "0.0.0.0"}}
ConfigHostPorts == {Int64Null} \cup {Int64Value(p) : p \in {1, 6550, 40000}}

Configs ==
    {[NullData EXCEPT !.Name = StringValue(n), !.Servers = s, !.Agents = a,
                      !.Image = img, !.K8sHostIP = ip, !.K8sHostPort = p] :
        n \in Names, s \in ConfigServers, a \in ConfigAgents,
        img \in ConfigImages, ip \in ConfigHostIPs, p \in ConfigHostPorts}

InitSimpleConfig ==
    /\ clusters = [n \in Names |-> NoCluster]
    /\ defaultKubeconfig = {}
    /\ kubeconfigFiles = {}
    /\ tfstate = [n \in Names |-> NullData]
    /\ resp = NoResponse
    /\ faults = TRUE
    /\ runtimeNodes = <<>>
    /\ attribute \in {[kind |-> "config", value |-> c] : c \in Configs}

NextSimpleConfig ==
    SynthesizeFlat \/ SynthesizeModifiers \/ SynthesizeHistorical

SpecSimpleConfig == InitSimpleConfig /\ [][NextSimpleConfig]_vars

----------------------------------------------------------------------------
(* What a caller can observe of a response *)

ErrorCount(diags) ==
    Cardinality({i \in 1..Len(diags) : diags[i].severity = "error"})

WarningCount(diags) ==
    Cardinality({i \in 1..Len(diags) : diags[i].severity = "warning"})

HasDiagnostic(diags, severity, summary) ==
    \E i \in 1..Len(diags) :
        diags[i].severity = severity /\ diags[i].summary = summary

CallsOf(calls, fn) == {i \in 1..Len(calls) : calls[i].fn = fn}

MutatingCalls == {"ClusterRun", "ClusterDelete", "KubeconfigGetWrite",
                  "KubeconfigRemoveClusterFromDefaultConfig", "os.Remove"}

NoMutatingCall(calls) ==
    \A i \in 1..Len(calls) : calls[i].fn \notin MutatingCalls

WorldUnchanged ==
    /\ clusters' = clusters
    /\ defaultKubeconfig' = defaultKubeconfig
    /\ kubeconfigFiles' = kubeconfigFiles

\* the class of an outcome: the severity and summary of every diagnostic and
\* whether state was committed; the detail of a diagnostic is the text of the
\* library's error, passed through
Signal(diags, committed) ==
    [diags     |-> [i \in 1..Len(diags) |->
                      <<diags[i].severity, diags[i].summary>>],
     committed |-> committed]

----------------------------------------------------------------------------
(* C1: a Create issued while a cluster of that name exists ends with the     *)
(* error diagnostic "A cluster with the same name already exists", commits *)
(* no state and makes no mutating external call.                           *)
(* Stated as the claim states it, for every result the lookup can have.    *)
C1_CreateOfExistingIsConflict ==
    [][(resp'.op = "Create" /\ Present(clusters[resp'.name]))
        => /\ HasDiagnostic(resp'.diags, "error",
                            "A cluster with the same name already exists")
           /\ ~resp'.committed
           /\ tfstate' = tfstate
           /\ NoMutatingCall(resp'.calls)]_vars

(* C2: a Delete whose lookup reports "no nodes found" returns without any    *)
(* diagnostic, calls no ClusterDelete and changes nothing, so a second     *)
(* Delete leaves what the first one left.                                  *)
C2_DeleteOfAbsentIsSilent ==
    [][(resp'.op = "Delete"
        /\ resp'.calls[1].err = ClusterGetNoNodesFoundError)
        => /\ resp'.diags = <<>>
           /\ CallsOf(resp'.calls, "ClusterDelete") = {}
           /\ Len(resp'.calls) = 1
           /\ WorldUnchanged
           /\ tfstate' = tfstate]_vars

C2_Witness ==
    /\ resp.op = "Delete"
    /\ resp.calls[1].err = ClusterGetNoNodesFoundError
    /\ resp.diags = <<>>
    /\ ~IsNull(tfstate[resp.name].Name)

(* C3: when ClusterRun fails in Create, the error diagnostic comes first,    *)
(* then exactly one ClusterDelete with SkipRegistryCheck set; a failed     *)
(* rollback adds a warning after the error and never an error; no          *)
(* kubeconfig is written and no state committed.                           *)
C3_FailedRunRollsBack ==
    (resp.op = "Create"
     /\ \E i \in CallsOf(resp.calls, "ClusterRun") : resp.calls[i].err # ErrNil)
    => LET k == CHOOSE i \in CallsOf(resp.calls, "ClusterRun") : TRUE
       IN  /\ Len(resp.calls) = k + 1
           /\ CallsOf(resp.calls, "ClusterDelete") = {k + 1}
           /\ resp.calls[k + 1].SkipRegistryCheck
           /\ CallsOf(resp.calls, "KubeconfigGetWrite") = {}
           /\ ~resp.committed
           /\ resp.diags[1].severity = "error"
           /\ resp.diags[1].summary = "Error creating cluster"
           /\ ErrorCount(resp.diags) = 1
           /\ IF resp.calls[k + 1].err # ErrNil
                THEN /\ Len(resp.diags) = 2
                     /\ resp.diags[2].severity = "warning"
                     /\ resp.diags[2].summary =
                            "Error rolling back failed cluster creation"
                ELSE Len(resp.diags) = 1

C3_Witness ==
    /\ resp.op = "Create"
    /\ \E i \in CallsOf(resp.calls, "ClusterRun") : resp.calls[i].err # ErrNil
    /\ \E i \in CallsOf(resp.calls, "ClusterDelete") : resp.calls[i].err # ErrNil
    /\ WarningCount(resp.diags) = 1

(* C4: a Create of an absent name whose external calls all succeed, followed *)
(* by a Read whose lookup succeeds, leaves a committed state with id and   *)
(* name equal to the name and servers and agents as the plan asked.        *)
C4_CreateThenRead ==
    [][(CleanCreate(resp, resp.name)
        /\ resp'.op = "Read" /\ resp'.name = resp.name
        /\ resp'.calls[1].err = ErrNil)
        => /\ tfstate[resp.name].Servers = resp.req.Servers
           /\ tfstate[resp.name].Agents = resp.req.Agents
           /\ resp'.committed
           /\ tfstate'[resp.name].ID = StringValue(resp.name)
           /\ tfstate'[resp.name].Name = StringValue(resp.name)
           /\ tfstate'[resp.name].Servers = resp.req.Servers
           /\ tfstate'[resp.name].Agents = resp.req.Agents]_vars

C4_Witness ==
    /\ resp.op = "Read"
    /\ resp.afterCreate
    /\ resp.committed
    /\ tfstate[resp.name].ID = StringValue(resp.name)
    /\ tfstate[resp.name].Servers = Int64Value(1)
    /\ tfstate[resp.name].Agents = Int64Value(1)

(* C5: Update always ends with one error diagnostic, makes no external call  *)
(* and leaves the committed state and the world as they were.              *)
C5_UpdateAlwaysFails ==
    [][(resp'.op = "Update")
        => /\ ErrorCount(resp'.diags) = 1
           /\ resp'.calls = <<>>
           /\ ~resp'.committed
           /\ tfstate' = tfstate
           /\ WorldUnchanged]_vars

C5_Witness ==
    /\ resp.op = "Update"
    /\ Present(clusters[resp.name])
    /\ ~IsNull(tfstate[resp.name].Name)
    /\ ErrorCount(resp.diags) = 1

(* C6: Create and Read commit state exactly when their diagnostics hold no   *)
(* error; warnings do not prevent the commit.                              *)
C6_CommitIffNoError ==
    resp.op \in {"Create", "Read"}
    => (resp.committed <=> ErrorCount(resp.diags) = 0)

C6_Witness ==
    /\ resp.op = "Create"
    /\ resp.committed
    /\ WarningCount(resp.diags) > 0
    /\ tfstate[resp.name] # resp.req

(* C7: where every external call succeeds, a Create makes the cluster        *)
(* present (and succeeds when it was absent), Read and Update leave its    *)
(* presence alone, and a Delete makes it absent without error.             *)
C7_Lifecycle ==
    [][LET n   == resp'.name
           was == Present(clusters[n])
           is  == Present(clusters'[n])
       IN  /\ resp'.op = "Create"
                => is /\ (~was => resp'.committed /\ resp'.diags = <<>>)
                      /\ (was => clusters' = clusters /\ ~resp'.committed)
           /\ resp'.op \in {"Read", "Update"} => clusters' = clusters
           /\ resp'.op = "Delete" => ~is /\ ErrorCount(resp'.diags) = 0
           /\ (~was /\ is) => resp'.op = "Create"
           /\ (was /\ ~is) => resp'.op = "Delete"]_vars

C7_Witness ==
    /\ ~faults
    /\ resp.op = "Delete"
    /\ Len(resp.calls) > 1
    /\ ~Present(clusters[resp.name])
    /\ ~IsNull(tfstate[resp.name].Name)

(* C8: a Delete whose lookup finds the cluster calls ClusterDelete without   *)
(* SkipRegistryCheck, then removes the entry from the default kubeconfig,  *)
(* then removes the standalone file (the config directory first); a file   *)
(* that does not exist adds no diagnostic, any other failure of that step  *)
(* adds an error.                                                          *)
C8_DeleteOrder ==
    (resp.op = "Delete" /\ resp.calls[1].err = ErrNil)
    => LET c     == resp.calls
           last  == c[Len(c)]
           early == Cardinality({i \in {2, 3} : c[i].err # ErrNil})
           final == IF last.err = ErrNil \/ last.err = ErrNotExist
                      THEN 0 ELSE 1
       IN  /\ Len(c) \in {4, 5}
           /\ c[2].fn = "ClusterDelete" /\ ~c[2].SkipRegistryCheck
           /\ c[3].fn = "KubeconfigRemoveClusterFromDefaultConfig"
           /\ c[4].fn = "GetConfigDirOrCreate"
           /\ Len(c) = 5 <=> c[4].err = ErrNil
           /\ Len(c) = 5 => c[5].fn = "os.Remove"
           /\ Len(resp.diags) = early + final
           /\ ErrorCount(resp.diags) = early + final
           /\ final = 1 =>
                resp.diags[Len(resp.diags)].severity = "error"

C8_Witness ==
    /\ resp.op = "Delete"
    /\ Len(resp.calls) = 5
    /\ resp.calls[5].fn = "os.Remove"
    /\ resp.calls[5].err = ErrNotExist
    /\ resp.diags = <<>>

(* C9: a Read of an absent cluster ends in an outcome of another class than  *)
(* a Read whose lookup fails with any other error.                         *)
C9_NotFoundIsDistinct ==
    (resp.op = "Read" /\ resp.calls[1].err = ClusterGetNoNodesFoundError)
    => LET other == readCluster(resp.req, ErrOther,
                                clusters[resp.name], <<>>)
       IN  Signal(resp.diags, resp.committed)
             # Signal(other.diags, ~HasError(other.diags))

(* C10: after a readCluster that found the cluster, servers is the number of *)
(* its nodes of role server, agents the number of role agent, and the      *)
(* images observed are those of these nodes only.                          *)
C10_CountsByRole ==
    (resp.op = "Read" /\ resp.calls[1].err = ErrNil)
    => LET nodes == clusters[resp.name].nodes
           of(role) == {i \in DOMAIN nodes : nodes[i].Role = role}
       IN  /\ resp.committed
           /\ tfstate[resp.name].Servers
                = Int64Value(Cardinality(of(ServerRole)))
           /\ tfstate[resp.name].Agents
                = Int64Value(Cardinality(of(AgentRole)))
           /\ resp.images
                = {nodes[i].Image : i \in of(ServerRole) \cup of(AgentRole)}

C10_Witness ==
    /\ resp.op = "Read"
    /\ resp.calls[1].err = ErrNil
    /\ \E i, j \in DOMAIN clusters[resp.name].nodes :
          /\ clusters[resp.name].nodes[i].Role = ServerRole
          /\ clusters[resp.name].nodes[j].Role = RegistryRole
          /\ clusters[resp.name].nodes[j].Image
                # clusters[resp.name].nodes[i].Image
    /\ tfstate[resp.name].Servers = Int64Value(1)


\* the number of diagnostics of one severity and summary
DiagnosticCount(diags, severity, summary) ==
    Cardinality({i \in 1..Len(diags) :
        diags[i].severity = severity /\ diags[i].summary = summary})

\* a field that holds no value, and a string field that holds no text
Unset(v) == v.null \/ v.unknown
Blank(v) == Unset(v) \/ v.value = ""

\* the images of the server and agent nodes of a cluster
ServerAgentImages(cl) ==
    {cl.nodes[i].Image :
        i \in {j \in DOMAIN cl.nodes :
                  cl.nodes[j].Role \in {ServerRole, AgentRole}}}

\* a string of decimal digits, with or without a sign
IsNumber(s) ==
    LET body == IF s # <<>> /\ Head(s) \in {"+", "-"} THEN Tail(s) ELSE s
    IN  /\ body # <<>>
        /\ \A i \in 1..Len(body) :
              body[i] \in {"0", "1", "2", "3", "4", "5", "6", "7", "8", "9"}

(* C11: a cluster read that sees two or more images on the server and agent  *)
(* nodes gives exactly one "Multiple node images found" warning and a      *)
(* blank image field, whatever the field held before; a read that sees     *)
(* one image puts that image into the field and gives no such warning.     *)
C11_ImagesWarningAndBlank ==
    (resp.op = "Read" /\ resp.calls[1].err = ErrNil)
    => LET imgs == ServerAgentImages(clusters[resp.name])
           warnings == DiagnosticCount(resp.diags, "warning",
                                       "Multiple node images found")
       IN  /\ Cardinality(imgs) > 1
                => warnings = 1 /\ Blank(tfstate[resp.name].ImageSHA)
           /\ Cardinality(imgs) = 1
                => /\ warnings = 0
                   /\ \E image \in imgs :
                         tfstate[resp.name].ImageSHA = StringValue(image)

(* C12: a cluster read whose API binding has a host port that is no number   *)
(* adds one warning and no error, commits state, and leaves                *)
(* k8s_api_host_port without a value, not with the value it had before.    *)
C12_BadPortWarnsAndUnsets ==
    (resp.op = "Read" /\ resp.calls[1].err = ErrNil
     /\ clusters[resp.name].kubeAPI.present
     /\ ~IsNumber(clusters[resp.name].kubeAPI.HostPort))
    => /\ DiagnosticCount(resp.diags, "warning",
                          "Invalid port found in cluster settings") = 1
       /\ ErrorCount(resp.diags) = 0
       /\ resp.committed
       /\ Unset(tfstate[resp.name].K8sHostPort)

\* a node that carries the cluster label with this cluster's name
LabelledFor(node, clusterName) ==
    \E key \in DOMAIN node.RuntimeLabels :
        key = "k3d.cluster" /\ node.RuntimeLabels[key] = clusterName

\* the positions (port entry, binding) of the bindings of a node whose host
\* port is a number
NumericBindings(node) ==
    {pos \in UNION {{<<i, j>> : j \in DOMAIN node.Ports[i].bindings} :
                       i \in DOMAIN node.Ports} :
        IsNumber(node.Ports[pos[1]].bindings[pos[2]].HostPort)}

(* C13: the keys of the nodes map the data source returns are exactly the    *)
(* names of the nodes whose "k3d.cluster" label is present and equal to    *)
(* the cluster name asked for, whatever their role; each entry is keyed by *)
(* its own name.                                                           *)
C13_NodesOfClusterOnly ==
    (resp.op = "NodesRead" /\ resp.committed)
    => /\ DOMAIN resp.data.Nodes
            = {runtimeNodes[i].Name :
                 i \in {j \in DOMAIN runtimeNodes :
                           LabelledFor(runtimeNodes[j], resp.name)}}
       /\ \A key \in DOMAIN resp.data.Nodes :
             /\ resp.data.Nodes[key].Name = key
             /\ \E i \in DOMAIN runtimeNodes :
                   /\ runtimeNodes[i].Name = key
                   /\ runtimeNodes[i].Role = resp.data.Nodes[key].Role

C13_Witness ==
    /\ resp.op = "NodesRead"
    /\ resp.committed
    /\ resp.name = "test"
    /\ Len(runtimeNodes) = 3
    /\ LabelledFor(runtimeNodes[1], "test")
    /\ LabelledFor(runtimeNodes[2], "other")
    /\ ~LabelledFor(runtimeNodes[3], "test")
    /\ ~LabelledFor(runtimeNodes[3], "other")
    /\ DOMAIN resp.data.Nodes = {"k3d-test-serverlb"}
    /\ resp.data.Nodes["k3d-test-serverlb"].Role = LoadBalancerRole

(* C14: in the data source Read a binding whose host port is no number is    *)
(* left out of its node's port list, every other binding of every node     *)
(* kept is returned, no diagnostic is added and the result is committed.   *)
C14_BadBindingDropped ==
    (resp.op = "NodesRead" /\ resp.calls[1].err = ErrNil)
    => /\ resp.committed
       /\ resp.diags = <<>>
       /\ \A i \in DOMAIN runtimeNodes :
             LabelledFor(runtimeNodes[i], resp.name)
             => LET node == runtimeNodes[i]
                    out  == resp.data.Nodes[node.Name].Ports
                IN  /\ Len(out) = Cardinality(NumericBindings(node))
                    /\ \A pos \in NumericBindings(node) :
                          \E k \in DOMAIN out :
                             /\ out[k].Port = node.Ports[pos[1]].port
                             /\ FormatInt(out[k].HostPort)
                                  = node.Ports[pos[1]].bindings[pos[2]].HostPort

\* the decimal digits, and the number a string of them stands for
DecimalDigits == <<"0", "1", "2", "3", "4", "5", "6", "7", "8", "9">>

IsDecimal(f) ==
    f # <<>> /\ \A i \in 1..Len(f) : \E d \in 1..10 : DecimalDigits[d] = f[i]

RECURSIVE DecimalValue(_)
DecimalValue(f) ==
    IF f = <<>> THEN 0
    ELSE DecimalValue(SubSeq(f, 1, Len(f) - 1)) * 10
         + (CHOOSE d \in 1..10 : DecimalDigits[d] = f[Len(f)]) - 1

\* an IPv4 address in dotted-quad form: four decimal numbers of at most 255,
\* written without leading zeros, with three dots between them
IsDottedQuad(s) ==
    LET dots == {j \in 1..Len(s) : s[j] = "."}
    IN  /\ Cardinality(dots) = 3
        /\ LET cut == [k \in 0..4 |->
                         IF k = 0 THEN 0
                         ELSE IF k = 4 THEN Len(s) + 1
                         ELSE CHOOSE j \in dots :
                                Cardinality({i \in dots : i < j}) = k - 1]
               field(k) == SubSeq(s, cut[k - 1] + 1, cut[k] - 1)
           IN  \A k \in 1..4 :
                  /\ IsDecimal(field(k))
                  /\ Len(field(k)) <= 3
                  /\ Len(field(k)) > 1 => field(k)[1] # "0"
                  /\ DecimalValue(field(k)) <= 255

(* C15: the port validator adds a diagnostic for a concrete value v exactly  *)
(* when v < 1 or v > 65535, adds none for a null or unknown value, and a   *)
(* rejection is one error diagnostic at the attribute validated.           *)
C15_PortValidatorRange ==
    (resp.op = "Validate" /\ attribute.kind = "int64")
    => LET i == attribute.value
       IN  /\ Unset(i) => resp.diags = <<>>
           /\ ~Unset(i) =>
                (resp.diags # <<>> <=> (i.value < 1 \/ i.value > 65535))
           /\ Len(resp.diags) <= 1
           /\ \A k \in 1..Len(resp.diags) :
                 /\ resp.diags[k].severity = "error"
                 /\ resp.diags[k].path = attribute.path

C15_Witness ==
    /\ resp.op = "Validate"
    /\ attribute.kind = "int64"
    /\ attribute.value = Int64Value(65536)
    /\ Len(resp.diags) = 1
    /\ resp.diags[1].path = "k8s_api_host_port"

(* C16: the IP validator accepts a concrete string exactly when it is an     *)
(* IPv4 address in dotted-quad form, so it rejects every IPv6 literal, and *)
(* it accepts null and unknown values.                                     *)
C16_IPValidatorIPv4Only ==
    (resp.op = "Validate" /\ attribute.kind = "string")
    => LET ip == attribute.value
       IN  /\ Unset(ip) => resp.diags = <<>>
           /\ ~Unset(ip) => (resp.diags = <<>> <=> IsDottedQuad(ip.value))

(* C17: the string and integer default modifiers with default D turn a null  *)
(* or unknown planned value into the known value D, leave a known value as *)
(* it is, and applied again to their own result change nothing.            *)
C17_DefaultModifiers ==
    [][(resp'.op = "Modify")
        => LET before == attribute.value
               after  == attribute'.value
           IN  /\ Unset(before)
                    => after = [null |-> FALSE, unknown |-> FALSE,
                                value |-> resp'.default]
               /\ ~Unset(before) => after = before
               /\ resp.op = "Modify" => attribute' = attribute]_vars

C17_Witness ==
    /\ resp.op = "Modify"
    /\ resp.name = "k8s_api_host_port"
    /\ resp.plan = Int64Unknown
    /\ attribute.value = Int64Value(6550)

\* the configuration steps of Create, and the summary of each one's error
ConfigSteps ==
    <<"ProcessSimpleConfig", "TransformSimpleToClusterConfig",
      "ProcessClusterConfig", "ValidateClusterConfig">>

ConfigStepSummaries ==
    <<"Error processing K3D simple configuration",
      "Error transforming simple config to cluster config",
      "Error processing cluster config",
      "Error validating cluster config">>

(* C18: in a Create that passes the existence check the four configuration   *)
(* steps run in their order, each once; a step that fails is the last call *)
(* of the Create, which then holds exactly the error of that step, has     *)
(* made no mutating call, has committed nothing and has changed nothing.   *)
C18_ConfigStepsInOrder ==
    [][(resp'.op = "Create" /\ Len(resp'.calls) >= 2)
        => LET c == resp'.calls
           IN  /\ \A k \in 1..4 :
                     /\ Cardinality(CallsOf(c, ConfigSteps[k])) <= 1
                     /\ k + 1 <= Len(c) => c[k + 1].fn = ConfigSteps[k]
               /\ Len(c) > 5 =>
                     \A k \in 1..4 : c[k + 1].err = ErrNil
               /\ \A k \in 1..4 :
                     (k + 1 <= Len(c) /\ c[k + 1].err # ErrNil)
                     => /\ Len(c) = k + 1
                        /\ Len(resp'.diags) = 1
                        /\ resp'.diags[1].severity = "error"
                        /\ resp'.diags[1].summary = ConfigStepSummaries[k]
                        /\ resp'.diags[1].detail = c[k + 1].err
                        /\ NoMutatingCall(c)
                        /\ ~resp'.committed
                        /\ tfstate' = tfstate
                        /\ WorldUnchanged]_vars

C18_Witness ==
    /\ resp.op = "Create"
    /\ Len(resp.calls) = 4
    /\ resp.calls[4].fn = "ProcessClusterConfig"
    /\ resp.calls[4].err # ErrNil
    /\ resp.calls[3].err = ErrNil
    /\ ErrorCount(resp.diags) = 1

(* C19: a Create whose ClusterRun succeeds and whose kubeconfig write fails   *)
(* adds a warning and no error, calls no ClusterDelete, still reads the    *)
(* cluster back and commits state: the cluster exists and is in the state. *)
C19_KubeconfigFailureIsWarning ==
    (/\ resp.op = "Create"
     /\ \E i \in CallsOf(resp.calls, "ClusterRun") : resp.calls[i].err = ErrNil
     /\ \E j \in CallsOf(resp.calls, "KubeconfigGetWrite") :
           resp.calls[j].err # ErrNil)
    => /\ DiagnosticCount(resp.diags, "warning", "Error writing kubeconfig") = 1
       /\ ErrorCount(resp.diags) = 0
       /\ CallsOf(resp.calls, "ClusterDelete") = {}
       /\ resp.calls[Len(resp.calls)].fn = "ClusterGet"
       /\ Len(resp.calls) > 1
       /\ resp.committed
       /\ Present(clusters[resp.name])
       /\ tfstate[resp.name].Name = StringValue(resp.name)

\* C20: in every cluster state committed by Create or Read, id equals name,
\* and name is the name of the plan (Create) or of the prior state (Read); the
\* read-back never alters name
C20_IdEqualsName ==
    (resp.op \in {"Create", "Read"} /\ resp.committed)
    => /\ ~Unset(tfstate[resp.name].Name)
       /\ tfstate[resp.name].ID = tfstate[resp.name].Name
       /\ tfstate[resp.name].Name = resp.req.Name

\* a Read that follows a clean Create commits a state whose id is the name
C20_Witness ==
    /\ resp.op = "Read"
    /\ resp.committed
    /\ resp.afterCreate
    /\ tfstate[resp.name].ID = StringValue(resp.name)
    /\ resp.req.Name = StringValue(resp.name)

\* the value handed over for a field the caller wrote is the caller's value
Preserved(cfg, handed, given) == ~cfg.null => handed = given

\* C21: the configuration Create hands to the library has, for every field
\* the caller set (servers = 0, agents = 0 and an empty image included),
\* exactly the caller's value; a default (servers 1, agents 0, image
\* "latest", API host port 6550, API host IP "127.0.0.1") stands only in a
\* field the caller left unset: in every field left unset of the two flat
\* variants, and in servers, agents and image of the expose_api variant
C21_DefaultsOnlyWhenUnset ==
    resp.op = "Synthesize" =>
      LET c == resp.config
          s == resp.conf
      IN  /\ Preserved(c.Servers, s.Servers, c.Servers.value)
          /\ Preserved(c.Agents, s.Agents, c.Agents.value)
          /\ Preserved(c.Image, s.Image, c.Image.value)
          /\ Preserved(c.K8sHostIP, s.ExposeAPI.HostIP, c.K8sHostIP.value)
          /\ Preserved(c.K8sHostPort, s.ExposeAPI.HostPort,
                       FormatInt(c.K8sHostPort.value))
          /\ c.Servers.null => s.Servers = 1
          /\ c.Agents.null => s.Agents = 0
          /\ c.Image.null => s.Image = "latest"
          /\ resp.name \in {"flat", "modifiers"} =>
               /\ c.K8sHostIP.null => s.ExposeAPI.HostIP = "127.0.0.1"
               /\ c.K8sHostPort.null => s.ExposeAPI.HostPort = FormatInt(6550)

\* the flat variant is given servers = 0, agents = 0 and an empty image and no
\* port: the zeros and the empty string are handed over, the port is 6550
C21_Witness ==
    /\ resp.op = "Synthesize"
    /\ resp.name = "flat"
    /\ resp.config.Servers = Int64Value(0)
    /\ resp.config.Agents = Int64Value(0)
    /\ resp.config.Image = StringValue("")
    /\ resp.config.K8sHostPort = Int64Null
    /\ resp.conf.Servers = 0
    /\ resp.conf.Agents = 0
    /\ resp.conf.Image = ""
    /\ resp.conf.ExposeAPI.HostPort = <<"6", "5", "5", "0">>

\* C25: in every variant of Create the API host port string placed into the
\* library configuration is empty or the decimal rendering of an integer,
\* never the placeholder of a null or unknown k8s_api_host_port
C25_NoPortPlaceholder ==
    resp.op = "Synthesize" =>
        \/ resp.conf.ExposeAPI.HostPort = <<>>
        \/ IsNumber(resp.conf.ExposeAPI.HostPort)

\* C22: after a Delete that returns without an error diagnostic neither
\* kubeconfig artefact of the cluster remains: no entry in the default
\* kubeconfig and no standalone kubeconfig file, also when the cluster was
\* already absent
C22_DeleteRemovesKubeconfig ==
    (resp.op = "Delete" /\ ErrorCount(resp.diags) = 0)
    => /\ resp.name \notin defaultKubeconfig
       /\ resp.name \notin kubeconfigFiles

\* C23: in Delete an error diagnostic ends the operation: after a failed
\* ClusterDelete neither kubeconfig removal is called, and after a failed
\* removal from the default kubeconfig the standalone file is not removed
C23_DeleteAbortsOnError ==
    resp.op = "Delete" =>
      /\ (\E i \in CallsOf(resp.calls, "ClusterDelete") :
              resp.calls[i].err # ErrNil)
         => /\ CallsOf(resp.calls,
                       "KubeconfigRemoveClusterFromDefaultConfig") = {}
            /\ CallsOf(resp.calls, "GetConfigDirOrCreate") = {}
            /\ CallsOf(resp.calls, "os.Remove") = {}
      /\ (\E j \in CallsOf(resp.calls,
                           "KubeconfigRemoveClusterFromDefaultConfig") :
              resp.calls[j].err # ErrNil)
         => /\ CallsOf(resp.calls, "GetConfigDirOrCreate") = {}
            /\ CallsOf(resp.calls, "os.Remove") = {}

\* C24: the object default modifier replaces an unknown planned object as
\* well as a null one by its default, like the string and integer modifiers,
\* and leaves every known non-null object as it is
C24_ObjectModifierLikeOthers ==
    resp.op = "ModifyObject" =>
      /\ Unset(resp.plan) => attribute.value = resp.default
      /\ ~Unset(resp.plan) => attribute.value = resp.plan

\* C26: a Delete whose lookup fails with another error than "no nodes found"
\* adds one error diagnostic and returns: the lookup is its only call, and
\* the cluster and both kubeconfig artefacts are as they were
C26_DeleteLookupFailureTouchesNothing ==
    [][(resp'.op = "Delete"
        /\ resp'.calls[1].err \notin {ErrNil, ClusterGetNoNodesFoundError})
       => /\ resp'.diags = <<NewErrorDiagnostic("Error reading k3d cluster",
                                                resp'.calls[1].err)>>
          /\ Len(resp'.calls) = 1
          /\ resp'.calls[1].fn = "ClusterGet"
          /\ ~resp'.committed
          /\ tfstate' = tfstate
          /\ WorldUnchanged]_vars

\* the lookup of a Delete failed while the cluster and its entry in the
\* default kubeconfig were there, and they still are
C26_Witness ==
    /\ resp.op = "Delete"
    /\ resp.calls = <<Call("ClusterGet", ErrOther)>>
    /\ ErrorCount(resp.diags) = 1
    /\ Present(clusters[resp.name])
    /\ resp.name \in defaultKubeconfig

\* C27: a Create that ends with an error diagnostic never deletes a cluster
\* of its name that existed when it began, also when its lookup failed
\* although the cluster exists, ClusterRun failed and the rollback ran
C27_CreateKeepsExistingCluster ==
    [][(resp'.op = "Create" /\ HasError(resp'.diags)
        /\ Present(clusters[resp'.name]))
       => Present(clusters'[resp'.name])]_vars

\* the decimal string of an integer in 1..65535
IsPortString(s) ==
    /\ IsDecimal(s)
    /\ s[1] # "0"
    /\ Len(s) <= 5
    /\ DecimalValue(s) \in 1..65535

\* C28: a cluster read of a cluster whose API binding host port is the
\* decimal string of a port P the validator accepts (1 <= P <= 65535) sets
\* k8s_api_host_port to P and gives no "invalid port" warning
C28_PortRoundTrip ==
    (resp.op = "Read" /\ resp.calls[1].err = ErrNil
     /\ clusters[resp.name].kubeAPI.present
     /\ IsPortString(clusters[resp.name].kubeAPI.HostPort))
    => /\ resp.committed
       /\ tfstate[resp.name].K8sHostPort
            = Int64Value(DecimalValue(clusters[resp.name].kubeAPI.HostPort))
       /\ DiagnosticCount(resp.diags, "warning",
                          "Invalid port found in cluster settings") = 0

\* the positions (port entry, binding) of the bindings of a node whose host
\* port is the decimal string of an integer in 1..65535
PortBindings(node) ==
    {pos \in UNION {{<<i, j>> : j \in DOMAIN node.Ports[i].bindings} :
                       i \in DOMAIN node.Ports} :
        IsPortString(node.Ports[pos[1]].bindings[pos[2]].HostPort)}

\* C29: in the data source Read every binding of a node kept whose host port
\* is the decimal string of an integer in 1..65535 is in the node's port list
\* with that integer as host_port, and the list has as many entries as the
\* node has such bindings
C29_ValidBindingsReturned ==
    (resp.op = "NodesRead" /\ resp.calls[1].err = ErrNil)
    => \A i \in DOMAIN runtimeNodes :
          LabelledFor(runtimeNodes[i], resp.name)
          => LET node == runtimeNodes[i]
                 out  == resp.data.Nodes[node.Name].Ports
             IN  /\ Len(out) = Cardinality(PortBindings(node))
                 /\ \A pos \in PortBindings(node) :
                       \E k \in DOMAIN out :
                          /\ out[k].Port = node.Ports[pos[1]].port
                          /\ out[k].HostPort = DecimalValue(
                                node.Ports[pos[1]].bindings[pos[2]].HostPort)

\* C30: a Create that returns without committing state, and whose rollback
\* ClusterDelete (if it made one) succeeded, leaves no cluster of its name
\* that it created: where there was none before the call there is none after
C30_NoOrphanAfterFailedCreate ==
    [][(/\ resp'.op = "Create"
        /\ ~resp'.committed
        /\ ~Present(clusters[resp'.name])
        /\ \A i \in CallsOf(resp'.calls, "ClusterDelete") :
               resp'.calls[i].err = ErrNil)
       => ~Present(clusters'[resp'.name])]_vars

=========================================================================
